---- MODULE Spec2Model ----
(***************************************************************************)
(* Model of the text pipeline of newsfeed10_clean_briefing.py:             *)
(* normalize / tokenize / is_low_signal / jaccard / cluster_titles /       *)
(* label_cluster / representative_title / build_clean_paragraph.           *)
(*                                                                         *)
(* Texts are TLA+ strings processed character by character.  A missing or  *)
(* None title/description is the empty string, which is what every use in  *)
(* the source turns it into ((x or ""), r.get(k, "")).  A float similarity *)
(* len(A & B) / len(A | B) is the exact fraction <<num, den>>; fractions   *)
(* are compared by cross multiplication, which agrees with the comparison  *)
(* of the correctly rounded quotients for the small integers that occur.   *)
(***************************************************************************)
EXTENDS Integers, Sequences, FiniteSets, TLC

(***************************************************************************)
(* Generic helpers for Python built-ins                                    *)
(***************************************************************************)
Ch(s, i) == SubSeq(s, i, i)

Range(s) == { s[i] : i \in DOMAIN s }

Reverse(s) == [ i \in 1..Len(s) |-> s[Len(s) + 1 - i] ]

Take(s, n) == SubSeq(s, 1, IF n < Len(s) THEN n ELSE Len(s))

\* lexicographic < on equal-length tuples of integers (Python tuple order)
RECURSIVE KeyLess(_, _)
KeyLess(a, b) ==
    IF a = <<>> \/ b = <<>> THEN FALSE
    ELSE IF Head(a) # Head(b) THEN Head(a) < Head(b)
    ELSE KeyLess(Tail(a), Tail(b))

\* insert x behind every element whose key is not greater than x's
RECURSIVE InsertStable(_, _)
InsertStable(sorted, x) ==
    IF sorted = <<>> THEN <<x>>
    ELSE IF KeyLess(x.key, Head(sorted).key) THEN <<x>> \o sorted
    ELSE <<Head(sorted)>> \o InsertStable(Tail(sorted), x)

RECURSIVE SortFrom(_, _)
SortFrom(sorted, rest) ==
    IF rest = <<>> THEN sorted
    ELSE SortFrom(InsertStable(sorted, Head(rest)), Tail(rest))

\* sorted(items, key=...): ascending and stable.  items are records with a
\* field key (a tuple of integers) and a field val.
Sorted(items) == SortFrom(<<>>, items)

\* list.sort(key=..., reverse=True): CPython reverses the list, sorts it
\* ascending and stable, and reverses the result
SortedReverse(items) == Reverse(Sorted(Reverse(items)))

(***************************************************************************)
(* Text utilities (source lines 56-98)                                     *)
(***************************************************************************)
\* The scans over a text are recursive functions of the position in it.
UPPER == "ABCDEFGHIJKLMNOPQRSTUVWXYZ"

LOWER == "abcdefghijklmnopqrstuvwxyz"

DIGITS == "0123456789"

InStr(c, s) == \E i \in 1..Len(s) : Ch(s, i) = c

IsSpace(c) == c \in {" ", "\t", "\n", "\r"}

Min(S) == CHOOSE m \in S : \A n \in S : m <= n

LowerCh(c) ==
    IF InStr(c, UPPER)
    THEN Ch(LOWER, CHOOSE i \in 1..Len(UPPER) : Ch(UPPER, i) = c)
    ELSE c

\* str.lower() on ASCII text
LowerStr(s) ==
    LET out[k \in 0..Len(s)] ==
            IF k = 0 THEN "" ELSE out[k - 1] \o LowerCh(Ch(s, k))
    IN  out[Len(s)]

StartsAt(s, k, p) == k + Len(p) - 1 <= Len(s) /\ SubSeq(s, k, k + Len(p) - 1) = p

\* the first position from k on that holds whitespace or lies behind s
SpaceFrom(s, k) ==
    Min({ q \in k..(Len(s) + 1) : q = Len(s) + 1 \/ IsSpace(Ch(s, q)) })

\* the first position from k on that holds no whitespace or lies behind s
NonSpaceFrom(s, k) ==
    Min({ q \in k..(Len(s) + 1) : q = Len(s) + 1 \/ ~IsSpace(Ch(s, q)) })

\* length of the match of https?://\S+ at position k of s, 0 when none
UrlMatchLen(s, k) ==
    LET scheme == IF StartsAt(s, k, "https://") THEN 8
                  ELSE IF StartsAt(s, k, "http://") THEN 7 ELSE 0
        run == IF scheme = 0 THEN 0 ELSE SpaceFrom(s, k + scheme) - (k + scheme)
    IN  IF run = 0 THEN 0 ELSE scheme + run

\* re.sub(r"https?://\S+", " ", text)
SubUrls(s) ==
    LET out[k \in 1..(Len(s) + 1)] ==
            IF k > Len(s) THEN ""
            ELSE LET m == UrlMatchLen(s, k)
                 IN  IF m > 0 THEN " " \o out[k + m]
                     ELSE Ch(s, k) \o out[k + 1]
    IN  out[1]

\* length of the match of \([^)]*\) at position k of s, 0 when none
ParenMatchLen(s, k) ==
    LET closes == { q \in (k + 1)..Len(s) : Ch(s, q) = ")" }
    IN  IF Ch(s, k) = "(" /\ closes # {} THEN Min(closes) - k + 1 ELSE 0

\* re.sub(r"\([^)]*\)", " ", text)
SubParens(s) ==
    LET out[k \in 1..(Len(s) + 1)] ==
            IF k > Len(s) THEN ""
            ELSE LET m == ParenMatchLen(s, k)
                 IN  IF m > 0 THEN " " \o out[k + m]
                     ELSE Ch(s, k) \o out[k + 1]
    IN  out[1]

\* re.sub(r"[^a-z0-9\s-]", " ", text)
SubOther(s) ==
    LET Keep(c) == InStr(c, LOWER) \/ InStr(c, DIGITS) \/ IsSpace(c) \/ c = "-"
        out[k \in 0..Len(s)] ==
            IF k = 0 THEN ""
            ELSE out[k - 1] \o (IF Keep(Ch(s, k)) THEN Ch(s, k) ELSE " ")
    IN  out[Len(s)]

\* re.sub(r"\s+", " ", text)
SubSpaces(s) ==
    LET out[k \in 1..(Len(s) + 1)] ==
            IF k > Len(s) THEN ""
            ELSE IF IsSpace(Ch(s, k)) THEN " " \o out[NonSpaceFrom(s, k)]
            ELSE Ch(s, k) \o out[k + 1]
    IN  out[1]

\* str.strip(): from the first to the last character that is not whitespace
Strip(s) ==
    LET Ink(q) == ~IsSpace(Ch(s, q))
    IN  IF \A q \in 1..Len(s) : ~Ink(q) THEN ""
        ELSE SubSeq(s,
                    CHOOSE q \in 1..Len(s) :
                        Ink(q) /\ \A r \in 1..(q - 1) : ~Ink(r),
                    CHOOSE q \in 1..Len(s) :
                        Ink(q) /\ \A r \in (q + 1)..Len(s) : ~Ink(r))

normalize(text) ==
    Strip(SubSpaces(SubOther(SubParens(SubUrls(LowerStr(text))))))

\* str.split(): the maximal runs of characters that are not whitespace
Split(s) ==
    LET out[k \in 1..(Len(s) + 1)] ==
            LET b == NonSpaceFrom(s, k)
                e == SpaceFrom(s, b)
            IN  IF b > Len(s) THEN <<>>
                ELSE <<SubSeq(s, b, e - 1)>> \o out[e]
    IN  out[1]

\* str.isdigit() on ASCII text
IsDigit(w) == w # "" /\ \A i \in 1..Len(w) : InStr(Ch(w, i), DIGITS)

STOP ==
    {"a", "an", "the", "and", "or", "but", "if", "then", "than", "so", "to",
     "of", "in", "on", "for", "with", "from", "by", "at", "as", "is", "are",
     "was", "were", "be", "been", "being", "this", "that", "these", "those",
     "it", "its", "into", "over", "under", "about", "across", "after",
     "before", "during", "between", "also", "not", "no", "can", "could",
     "would", "should", "may", "might", "will", "just", "more", "most",
     "much", "very", "per", "via"}

SPORTS ==
    {"nba", "nfl", "nhl", "mlb", "match", "game", "games", "season",
     "playoff", "all-star", "dunk", "overtime", "quarter", "finals",
     "championship", "wrestle", "wrestling", "division", "scoreboard",
     "wildcats", "lakers"}

LIFESTYLE_LOCAL ==
    {"wedding", "weddings", "horoscope", "crossword", "recipe", "recipes",
     "dining", "travel", "scenic", "waterfall", "park", "town", "county",
     "local", "citizen", "newsletter", "obituaries", "health", "scores"}

FINANCE_TICKER ==
    {"nyse", "nasdaq", "etf", "stock", "stocks", "shares", "bond", "bonds",
     "yield", "earnings", "ticker", "short", "interest", "price", "target"}

TokenKept(w) == w \notin STOP /\ Len(w) > 2 /\ ~IsDigit(w)

tokenize(text) == SelectSeq(Split(normalize(text)), TokenKept)

(***************************************************************************)
(* The article records of the runs.  tokenize is a pure function of its    *)
(* text, so the runs look its value up in a table computed once.           *)
(***************************************************************************)
R_EMPTY == [title |-> "", description |-> "Photo gallery"]

R_UNTOK == [title |-> "The 2024 (live)", description |-> ""]

R_NAVY == [title |-> "Navy war!", description |-> ""]

R_ELEC == [title |-> "Election vote 2024", description |-> ""]

R_MIX == [title |-> "War vote?", description |-> ""]

R_BORDER == [title |-> "Border war: war data", description |-> ""]

R_LOW == [title |-> "Recipes for dining",
          description |-> "Local news https://x.co/a"]

Records == {R_EMPTY, R_UNTOK, R_NAVY, R_ELEC, R_MIX, R_BORDER, R_LOW}

\* the texts the runs tokenize, each tokenized once
Texts ==
    UNION { {r.title, Strip(r.title), r.title \o " " \o r.description} :
            r \in Records }

TokenTable == { [text |-> t, tokens |-> tokenize(t)] : t \in Texts }

Tokens(text) == (CHOOSE e \in TokenTable : e.text = text).tokens

is_low_signal(title, desc) ==
    LET ws == Range(Tokens(title \o " " \o desc))
    IN  IF Cardinality(ws \cap SPORTS) >= 2 THEN TRUE
        ELSE IF Cardinality(ws \cap LIFESTYLE_LOCAL) >= 2 THEN TRUE
        ELSE IF Cardinality(ws \cap FINANCE_TICKER) >= 3 THEN TRUE
        ELSE FALSE

(***************************************************************************)
(* collections.Counter: a sequence of [w, n] entries in insertion order    *)
(***************************************************************************)
RECURSIVE SumSeq(_)
SumSeq(s) == IF s = <<>> THEN 0 ELSE Head(s) + SumSeq(Tail(s))

\* counts.get(w, 0)
CounterGet(counts, w) ==
    IF \E k \in DOMAIN counts : counts[k].w = w
    THEN counts[CHOOSE k \in DOMAIN counts : counts[k].w = w].n
    ELSE 0

\* a counter that records a repeated token once
CounterAdd_Once(counts, w) ==
    IF \E k \in DOMAIN counts : counts[k].w = w
    THEN counts
    ELSE Append(counts, [w |-> w, n |-> 1])

\* counts[w] += 1 : a new key goes to the end, an old key keeps its place
CounterAdd(counts, w) ==
    IF \E k \in DOMAIN counts : counts[k].w = w
    THEN [ k \in DOMAIN counts |->
             IF counts[k].w = w THEN [w |-> w, n |-> counts[k].n + 1]
             ELSE counts[k] ]
    ELSE Append(counts, [w |-> w, n |-> 1])

\* Counter.update(tks); Counter(tks) is the update of the empty counter
RECURSIVE CounterUpdate(_, _)
CounterUpdate(counts, tks) ==
    IF tks = <<>> THEN counts
    ELSE CounterUpdate(CounterAdd(counts, Head(tks)), Tail(tks))

CENTROID_SIZE == 25

\* [w for w, _ in counts.most_common(n)]; most_common(n) is
\* heapq.nlargest(n, items, key=count) = sorted(items, key, reverse=True)[:n]
MostCommon(counts, n) ==
    LET items == [ k \in DOMAIN counts |->
                     [key |-> <<counts[k].n>>, val |-> counts[k].w] ]
        top == Take(SortedReverse(items), n)
    IN  [ k \in DOMAIN top |-> top[k].val ]

(***************************************************************************)
(* Storyline clustering (source lines 103-134)                             *)
(***************************************************************************)
\* p < q for fractions with positive denominators
FracLess(p, q) == p[1] * q[2] < q[1] * p[2]

\* p >= q
FracGeq(p, q) == ~FracLess(p, q)

jaccard(a, b) ==
    LET A == Range(a)
        B == Range(b)
        u == Cardinality(A \cup B)
    IN  IF A = {} \/ B = {} THEN <<0, 1>>
        ELSE <<Cardinality(A \cap B), IF u = 0 THEN 1 ELSE u>>

DEFAULT_THRESHOLD == <<33, 100>>

\* the records of the run: a title and a description
Title(r) == r.title

\* the skip without the check of the token list
SkipsRecord_TitleOnly(r) == Strip(Title(r)) = ""

\* lines 112-117: the record is passed over
SkipsRecord(r) ==
    LET title == Strip(Title(r))
    IN  IF title = "" THEN TRUE ELSE Tokens(title) = <<>>

\* the scan with >= for >: on equal similarity the last cluster wins
RECURSIVE BestMatchFrom_LastWins(_, _, _, _)
BestMatchFrom_LastWins(cs, tks, i, best) ==
    IF i > Len(cs) THEN best
    ELSE LET centroid == MostCommon(cs[i].tok_counts, CENTROID_SIZE)
             sim == jaccard(tks, centroid)
         IN  IF ~FracLess(sim, best.best_sim)
             THEN BestMatchFrom_LastWins(cs, tks, i + 1,
                                         [best_i |-> i, best_sim |-> sim])
             ELSE BestMatchFrom_LastWins(cs, tks, i + 1, best)

\* lines 119-125: the scan for the best cluster; best_i = 0 stands for None
RECURSIVE BestMatchFrom(_, _, _, _)
BestMatchFrom(cs, tks, i, best) ==
    IF i > Len(cs) THEN best
    ELSE LET centroid == MostCommon(cs[i].tok_counts, CENTROID_SIZE)
             sim == jaccard(tks, centroid)
         IN  IF FracLess(best.best_sim, sim)
             THEN BestMatchFrom(cs, tks, i + 1, [best_i |-> i, best_sim |-> sim])
             ELSE BestMatchFrom(cs, tks, i + 1, best)

BestMatch(cs, tks) ==
    BestMatchFrom(cs, tks, 1, [best_i |-> 0, best_sim |-> <<0, 1>>])

\* lines 127-131: cs after the record at position idx with tokens tks
PlaceRecord(cs, idx, tks, threshold) ==
    LET best == BestMatch(cs, tks)
    IN  IF best.best_i # 0 /\ FracGeq(best.best_sim, threshold)
        THEN [ k \in DOMAIN cs |->
                 IF k = best.best_i
                 THEN [rows |-> Append(cs[k].rows, idx),
                       tok_counts |-> CounterUpdate(cs[k].tok_counts, tks)]
                 ELSE cs[k] ]
        ELSE Append(cs, [rows |-> <<idx>>,
                         tok_counts |-> CounterUpdate(<<>>, tks)])

\* a descending sort that reverses an ascending one: ties come out reversed
SortClusters_Unstable(cs) ==
    LET items == [ k \in DOMAIN cs |->
                     [key |-> <<Len(cs[k].rows)>>, val |-> cs[k]] ]
        sorted == Reverse(Sorted(items))
    IN  [ k \in DOMAIN sorted |-> sorted[k].val ]

\* line 133: clusters.sort(key=lambda c: len(c["rows"]), reverse=True)
SortClusters(cs) ==
    LET items == [ k \in DOMAIN cs |->
                     [key |-> <<Len(cs[k].rows)>>, val |-> cs[k]] ]
        sorted == SortedReverse(items)
    IN  [ k \in DOMAIN sorted |-> sorted[k].val ]

(***************************************************************************)
(* Topic label and representative title (source lines 139-165)             *)
(***************************************************************************)
\* the dict in declaration order
TOPIC_LEXICON ==
    << [topic |-> "Geopolitics & security",
        words |-> <<"war", "military", "nuclear", "sanctions", "border",
                    "defense", "attack", "navy">>],
       [topic |-> "Elections & governance",
        words |-> <<"election", "vote", "parliament", "government",
                    "president", "minister", "court", "policy">>],
       [topic |-> "Economy & markets",
        words |-> <<"inflation", "gdp", "economy", "bank", "interest", "rate",
                    "currency", "trade", "jobs", "markets">>],
       [topic |-> "Tech & AI",
        words |-> <<"ai", "artificial", "chip", "cyber", "data", "software",
                    "platform">>],
       [topic |-> "Climate & disasters",
        words |-> <<"climate", "flood", "storm", "drought", "wildfire",
                    "earthquake">>],
       [topic |-> "Public safety & crime",
        words |-> <<"police", "arrest", "trial", "fraud", "shooting",
                    "crime">>] >>

DEFAULT_TOPIC == "Other"

\* sum(counts.get(w, 0) for w in words)
CountSum(counts, words) ==
    SumSeq([ k \in DOMAIN words |-> CounterGet(counts, words[k]) ])

\* the scan with >= for >: on equal scores the later topic wins
RECURSIVE LabelFrom_LastWins(_, _, _)
LabelFrom_LastWins(counts, t, best) ==
    IF t > Len(TOPIC_LEXICON) THEN best
    ELSE LET score == CountSum(counts, TOPIC_LEXICON[t].words)
         IN  IF score >= best.best_score
             THEN LabelFrom_LastWins(counts, t + 1,
                                     [best_topic |-> TOPIC_LEXICON[t].topic,
                                      best_score |-> score])
             ELSE LabelFrom_LastWins(counts, t + 1, best)

\* lines 150-156; best_topic = "" stands for None
RECURSIVE LabelFrom(_, _, _)
LabelFrom(counts, t, best) ==
    IF t > Len(TOPIC_LEXICON) THEN best
    ELSE LET score == CountSum(counts, TOPIC_LEXICON[t].words)
         IN  IF score > best.best_score
             THEN LabelFrom(counts, t + 1,
                            [best_topic |-> TOPIC_LEXICON[t].topic,
                             best_score |-> score])
             ELSE LabelFrom(counts, t + 1, best)

label_cluster(cluster) ==
    LET best == LabelFrom(cluster.tok_counts, 1,
                          [best_topic |-> "", best_score |-> 0])
    IN  IF best.best_topic # "" THEN best.best_topic ELSE DEFAULT_TOPIC

\* lines 161-162: score(t)
TitleScore(counts, t) == CountSum(counts, Tokens(t))

\* the sort key without the title length
RepKey_ScoreOnly(counts, t) == <<0 - TitleScore(counts, t)>>

\* line 164: the sort key of a member with title t
RepKey(counts, t) == <<0 - TitleScore(counts, t), Len(t)>>

\* lines 163-165, on the titles of the cluster's rows in insertion order
RepresentativeOf(counts, titles) ==
    LET items == [ k \in DOMAIN titles |->
                     [key |-> RepKey(counts, titles[k]), val |-> titles[k]] ]
        rows_sorted == Sorted(items)
    IN  rows_sorted[1].val

(***************************************************************************)
(* Inputs of the runs                                                      *)
(***************************************************************************)
MaxRows == 4

MaxTail == 2

MIN_FILTERED == 40

NARRATIVE_TOPICS == 3

\* sim_threshold values a caller of cluster_titles passes
Thresholds == {<<0, 1>>, DEFAULT_THRESHOLD, <<1, 2>>}

\* a feed that opens with n copies of one ordinary headline
Pad(n) == [ k \in 1..n |-> R_NAVY ]

PadSizes == {MIN_FILTERED - 1}

SeqsUpTo(S, n) == UNION { [1..k -> S] : k \in 0..n }

NO_HEADLINES == "No headlines were available to summarize."

INSUFFICIENT == "Insufficient signal to produce a coherent summary."

(***************************************************************************)
(* State                                                                   *)
(***************************************************************************)
VARIABLES
    entry,          \* the function the run calls
    rows,           \* its argument rows
    sim_threshold,  \* cluster_titles' sim_threshold, a fraction
    corpus,         \* the rows cluster_titles works on
    pc,             \* position of the run
    row_i,          \* cluster_titles: index in corpus of the next record
    clusters,       \* the list clusters
    topic,          \* topic[k] is clusters[k]["topic"]
    cluster_j,      \* build_clean_paragraph: index of the next cluster
    chosen,         \* indices into clusters of the chosen clusters
    seen,           \* topics already chosen
    lines,          \* the narrative lines
    result          \* the returned string

vars == <<entry, rows, sim_threshold, corpus, pc, row_i, clusters, topic,
          cluster_j, chosen, seen, lines, result>>

\* representative_title(clusters[k]) for the current corpus
MemberTitles(cluster) ==
    [ m \in DOMAIN cluster.rows |-> Title(corpus[cluster.rows[m]]) ]

representative_title(cluster) ==
    RepresentativeOf(cluster.tok_counts, MemberTitles(cluster))

\* line 171
Filtered(rs) ==
    LET Keep(r) == ~is_low_signal(r.title, r.description)
    IN  SelectSeq(rs, Keep)

\* the corpus choice with > for >=
ChooseCorpus_Strict(rs) ==
    LET filtered == Filtered(rs)
    IN  IF Len(filtered) > MIN_FILTERED THEN filtered ELSE rs

\* line 172
ChooseCorpus(rs) ==
    LET filtered == Filtered(rs)
    IN  IF Len(filtered) >= MIN_FILTERED THEN filtered ELSE rs

\* a sentinel for every feed that cannot fill the template
NoClusters_FewerThan3(cs) == Len(cs) < 3

\* line 175: not clusters
NoClusters(cs) == cs = <<>>

\* a walk that takes every cluster
WalkTakes_Always(t, seen_topics) == TRUE

\* line 186: c["topic"] not in seen
WalkTakes(t, seen_topics) == t \notin seen_topics

\* lines 201-207
Paragraph(ls) ==
    "The current headlines point to several parallel developments. "
    \o ls[1] \o ". " \o ls[2] \o ". " \o ls[3] \o ". "
    \o "Taken together, the feed reflects a dispersed news cycle rather than a single dominant global event."

Init ==
    /\ \/ /\ entry = "cluster_titles"
          /\ rows \in SeqsUpTo(Records, MaxRows)
          /\ sim_threshold \in Thresholds
          /\ corpus = rows
          /\ pc = "cluster_loop"
       \/ /\ entry = "build_clean_paragraph"
          /\ rows \in SeqsUpTo(Records, MaxRows) \cup
                      { Pad(n) \o t : n \in PadSizes,
                                      t \in SeqsUpTo(Records, MaxTail) }
          /\ sim_threshold = DEFAULT_THRESHOLD
          /\ corpus = <<>>
          /\ pc = "build_start"
    /\ row_i = 1
    /\ clusters = <<>>
    /\ topic = <<>>
    /\ cluster_j = 1
    /\ chosen = <<>>
    /\ seen = {}
    /\ lines = <<>>
    /\ result = ""

\* lines 167-174: the empty check, the filter, the call of cluster_titles
BuildStart ==
    /\ pc = "build_start"
    /\ IF rows = <<>>
       THEN /\ result' = NO_HEADLINES
            /\ pc' = "done"
            /\ UNCHANGED corpus
       ELSE /\ corpus' = ChooseCorpus(rows)
            /\ pc' = "cluster_loop"
            /\ UNCHANGED result
    /\ UNCHANGED <<entry, rows, sim_threshold, row_i, clusters, topic, cluster_j, chosen,
                   seen, lines>>

\* lines 111-131: one iteration of the loop over rows
ClusterRecord ==
    /\ pc = "cluster_loop"
    /\ row_i <= Len(corpus)
    /\ clusters' =
         IF SkipsRecord(corpus[row_i]) THEN clusters
         ELSE PlaceRecord(clusters, row_i, Tokens(Strip(Title(corpus[row_i]))),
                          sim_threshold)
    /\ row_i' = row_i + 1
    /\ UNCHANGED <<entry, rows, sim_threshold, corpus, pc, topic, cluster_j, chosen,
                   seen, lines, result>>

\* lines 133-134: the sort and the return
ClusterSort ==
    /\ pc = "cluster_loop"
    /\ row_i > Len(corpus)
    /\ clusters' = SortClusters(clusters)
    /\ pc' = IF entry = "cluster_titles" THEN "done" ELSE "build_label"
    /\ UNCHANGED <<entry, rows, sim_threshold, corpus, row_i, topic, cluster_j, chosen,
                   seen, lines, result>>

\* lines 175-180: the sentinel for no clusters, else the labels
BuildLabel ==
    /\ pc = "build_label"
    /\ IF NoClusters(clusters)
       THEN /\ result' = INSUFFICIENT
            /\ pc' = "done"
            /\ UNCHANGED topic
       ELSE /\ topic' = [ k \in DOMAIN clusters |-> label_cluster(clusters[k]) ]
            /\ pc' = "choose"
            /\ UNCHANGED result
    /\ UNCHANGED <<entry, rows, sim_threshold, corpus, row_i, clusters, cluster_j, chosen,
                   seen, lines>>

\* lines 185-190: one iteration of the walk, with its break
ChooseStep ==
    /\ pc = "choose"
    /\ cluster_j <= Len(clusters)
    /\ LET take == WalkTakes(topic[cluster_j], seen)
           chosen1 == IF take THEN Append(chosen, cluster_j) ELSE chosen
       IN  /\ chosen' = chosen1
           /\ seen' = IF take THEN seen \cup {topic[cluster_j]} ELSE seen
           /\ pc' = IF Len(chosen1) = NARRATIVE_TOPICS \/ cluster_j = Len(clusters)
                    THEN "narrative" ELSE "choose"
    /\ cluster_j' = cluster_j + 1
    /\ UNCHANGED <<entry, rows, sim_threshold, corpus, row_i, clusters, topic,
                   lines, result>>

\* lines 191-209: the fallback, the lines, the paragraph; lines[k] of a
\* missing line raises IndexError
BuildNarrative ==
    /\ pc = "narrative"
    /\ LET chosen1 == IF Len(chosen) < NARRATIVE_TOPICS
                      THEN Take([ k \in DOMAIN clusters |-> k ], 3)
                      ELSE chosen
           lines1 == [ k \in DOMAIN chosen1 |->
                         topic[chosen1[k]] \o ": " \o
                         representative_title(clusters[chosen1[k]]) ]
       IN  /\ chosen' = chosen1
           /\ lines' = lines1
           /\ IF Len(lines1) < 3
              THEN pc' = "raised" /\ UNCHANGED result
              ELSE pc' = "done" /\ result' = Paragraph(lines1)
    /\ UNCHANGED <<entry, rows, sim_threshold, corpus, row_i, clusters, topic, cluster_j,
                   seen>>

Next ==
    \/ BuildStart
    \/ ClusterRecord
    \/ ClusterSort
    \/ BuildLabel
    \/ ChooseStep
    \/ BuildNarrative

Spec == Init /\ [][Next]_vars

TypeOK ==
    /\ entry \in {"cluster_titles", "build_clean_paragraph"}
    /\ pc \in {"build_start", "cluster_loop", "build_label", "choose",
               "narrative", "done", "raised"}
    /\ row_i \in 1..(Len(corpus) + 1)
    /\ cluster_j \in 1..(Len(clusters) + 1)

(***************************************************************************)
(* Vocabulary of the properties                                            *)
(***************************************************************************)
\* cluster_titles has returned (or was never called, for an empty feed)
ClusteringFinished == pc \notin {"build_start", "cluster_loop"}

BuildFinished == entry = "build_clean_paragraph" /\ pc \in {"done", "raised"}

\* the record's title tokenizes to a non-empty token list
HasTokens(r) == Tokens(r.title) # <<>>

\* number of times position p of the corpus is a member of a cluster
Memberships(p) ==
    SumSeq([ k \in DOMAIN clusters |->
               Cardinality({ m \in DOMAIN clusters[k].rows :
                               clusters[k].rows[m] = p }) ])

\* number of occurrences of w in the token list tks
Occurrences(tks, w) == Cardinality({ q \in DOMAIN tks : tks[q] = w })

\* the tokenized titles of the members of a cluster of the records rs
MemberTokens(cluster, rs) ==
    [ m \in DOMAIN cluster.rows |-> Tokens(Strip(Title(rs[cluster.rows[m]]))) ]

CounterKeys(counts) == { counts[k].w : k \in DOMAIN counts }

\* the counter holds exactly the token occurrences of the cluster's members
CountsMatchMembers(cluster, rs) ==
    LET member_tokens == MemberTokens(cluster, rs)
        words == CounterKeys(cluster.tok_counts) \cup
                 UNION { Range(member_tokens[m]) : m \in DOMAIN member_tokens }
    IN  /\ \A w \in words :
             CounterGet(cluster.tok_counts, w)
               = SumSeq([ m \in DOMAIN member_tokens |->
                            Occurrences(member_tokens[m], w) ])
        /\ \A k1, k2 \in DOMAIN cluster.tok_counts :
             cluster.tok_counts[k1].w = cluster.tok_counts[k2].w => k1 = k2
        /\ \A k \in DOMAIN cluster.tok_counts : cluster.tok_counts[k].n >= 1

\* s is a prefix of t
IsPrefix(s, t) == Len(s) <= Len(t) /\ SubSeq(t, 1, Len(s)) = s

\* a step of the loop of cluster_titles
IsClusterStep == pc = "cluster_loop" /\ row_i <= Len(corpus) /\ row_i' = row_i + 1

(***************************************************************************)
(* C1: after cluster_titles finishes, every record whose title tokenizes  *)
(* to a non-empty token list is a member of exactly one cluster, every     *)
(* record with an empty or untokenizable title is a member of none, and    *)
(* the members over all clusters number as many as the records with a      *)
(* non-empty tokenized title.                                              *)
(***************************************************************************)
C1_EveryTitledRecordInOneCluster ==
    ClusteringFinished =>
      /\ \A p \in DOMAIN corpus :
           Memberships(p) = IF HasTokens(corpus[p]) THEN 1 ELSE 0
      /\ SumSeq([ k \in DOMAIN clusters |-> Len(clusters[k].rows) ])
           = Cardinality({ p \in DOMAIN corpus : HasTokens(corpus[p]) })

C1_Witness ==
    /\ ClusteringFinished
    /\ \E p \in DOMAIN corpus : corpus[p].title = ""
    /\ \E p \in DOMAIN corpus : corpus[p].title # "" /\ ~HasTokens(corpus[p])
    /\ \E k \in DOMAIN clusters : Len(clusters[k].rows) >= 2

(***************************************************************************)
(* C2: build_clean_paragraph never fails: for every record list, also one  *)
(* whose corpus yields only one or two clusters, it returns a string and   *)
(* raises no exception.                                                    *)
(***************************************************************************)
C2_NeverRaises == entry = "build_clean_paragraph" => pc # "raised"

(***************************************************************************)
(* C3: the list cluster_titles returns is in descending order of member    *)
(* count, and clusters of equal member count are in the order in which     *)
(* they were created.  A cluster is created by its first member, so the    *)
(* earlier created cluster is the one whose first member comes earlier in  *)
(* the corpus.                                                             *)
(***************************************************************************)
C3_SortedBySizeStable ==
    ClusteringFinished =>
      \A a, b \in DOMAIN clusters :
        a < b =>
          \/ Len(clusters[a].rows) > Len(clusters[b].rows)
          \/ /\ Len(clusters[a].rows) = Len(clusters[b].rows)
             /\ clusters[a].rows[1] < clusters[b].rows[1]

C3_Witness ==
    /\ ClusteringFinished
    /\ \E a, b \in DOMAIN clusters :
         a < b /\ Len(clusters[a].rows) = Len(clusters[b].rows)
    /\ \E a, b \in DOMAIN clusters :
         a < b /\ clusters[a].rows[1] > clusters[b].rows[1]

(***************************************************************************)
(* C4: the chosen clusters are found by walking the clusters in list       *)
(* (descending size) order and taking each cluster whose topic has not     *)
(* been taken yet, stopping at 3.  When the walk finds 3, the three lines  *)
(* have pairwise distinct topics and come in descending cluster size;      *)
(* when it finds fewer than 3, the chosen clusters are the first 3 of the  *)
(* list whatever their topics.                                             *)
(***************************************************************************)
\* clusters whose topic no earlier cluster of the list has
FirstOfTopic ==
    { k \in DOMAIN clusters : \A m \in 1..(k - 1) : topic[m] # topic[k] }

\* the q-th smallest element of the set S of numbers
NthOf(S, q) == CHOOSE k \in S : Cardinality({ h \in S : h <= k }) = q

NarrativeBuilt == BuildFinished /\ topic # <<>>

C4_ChosenByTopicWalk ==
    NarrativeBuilt =>
      IF Cardinality(FirstOfTopic) >= 3
      THEN /\ chosen = [ q \in 1..3 |-> NthOf(FirstOfTopic, q) ]
           /\ Len(lines) = 3
           /\ \A a, b \in 1..3 :
                a < b =>
                  /\ topic[chosen[a]] # topic[chosen[b]]
                  /\ Len(clusters[chosen[a]].rows)
                       >= Len(clusters[chosen[b]].rows)
           /\ \A q \in 1..3 :
                lines[q] = topic[chosen[q]] \o ": " \o
                           representative_title(clusters[chosen[q]])
      ELSE chosen = [ q \in 1..(IF Len(clusters) < 3 THEN Len(clusters) ELSE 3)
                      |-> q ]

\* the walk passed over a cluster of a topic already taken and found three
C4_Witness ==
    /\ NarrativeBuilt
    /\ pc = "done"
    /\ Len(chosen) = 3
    /\ chosen # <<1, 2, 3>>

(***************************************************************************)
(* C5: build_clean_paragraph clusters the records that are not low-signal  *)
(* if and only if there are at least 40 of them, and the full record list  *)
(* otherwise; so a low-signal record is left out of the corpus only when   *)
(* at least 40 other records survive the filter.                           *)
(***************************************************************************)
HighSignal == { p \in DOMAIN rows :
                  ~is_low_signal(rows[p].title, rows[p].description) }

CorpusChosen ==
    entry = "build_clean_paragraph" /\ pc # "build_start" /\ rows # <<>>

C5_FilteredCorpusOnlyFrom40 ==
    CorpusChosen =>
      LET high == HighSignal
      IN  /\ Cardinality(high) >= 40 =>
               /\ Len(corpus) = Cardinality(high)
               /\ \A q \in DOMAIN corpus : corpus[q] = rows[NthOf(high, q)]
          /\ Cardinality(high) < 40 => corpus = rows
          /\ Len(corpus) < Len(rows) => Cardinality(high) >= 40

\* exactly 40 records survive and a low-signal record is left out
C5_Witness ==
    /\ CorpusChosen
    /\ Cardinality(HighSignal) = 40
    /\ Len(corpus) = 40
    /\ Len(rows) > 40

(***************************************************************************)
(* C6: build_clean_paragraph returns the "no headlines" message exactly    *)
(* when the record list is empty, and the "insufficient signal" message    *)
(* exactly when the list is not empty and no record of the corpus has a    *)
(* title with tokens (clustering yields no clusters).                      *)
(***************************************************************************)
C6_SentinelsExactly ==
    BuildFinished =>
      /\ (pc = "done" /\ result = NO_HEADLINES) <=> rows = <<>>
      /\ (pc = "done" /\ result = INSUFFICIENT) <=>
           /\ rows # <<>>
           /\ \A p \in DOMAIN corpus : ~HasTokens(corpus[p])

C6_Witness ==
    /\ BuildFinished
    /\ pc = "done"
    /\ result = INSUFFICIENT
    /\ Len(rows) >= 2

(***************************************************************************)
(* Vocabulary of the claims about one iteration of cluster_titles          *)
(***************************************************************************)
\* the record the iteration is about and its token list
StepRecordPlaced == IsClusterStep /\ ~SkipsRecord(corpus[row_i])

StepTokens == Tokens(Strip(Title(corpus[row_i])))

\* similarity of the record's token set to the centroid of each cluster
Sims ==
    [ k \in DOMAIN clusters |->
        jaccard(StepTokens, MostCommon(clusters[k].tok_counts, CENTROID_SIZE)) ]

\* the position of the highest similarity, the earliest on equal ones
BestOf(sims) ==
    CHOOSE k \in DOMAIN sims :
      /\ \A m \in DOMAIN sims : ~FracLess(sims[k], sims[m])
      /\ \A m \in 1..(k - 1) : FracLess(sims[m], sims[k])

\* counts of the counter after are those before plus the record's tokens
TokensAdded(before, after) ==
    \A w \in Range(StepTokens) \cup CounterKeys(before) \cup CounterKeys(after) :
      CounterGet(after, w) = CounterGet(before, w) + Occurrences(StepTokens, w)

\* the record was appended to cluster b, the other clusters are as before
JoinedCluster(b) ==
    /\ Len(clusters') = Len(clusters)
    /\ clusters'[b].rows = Append(clusters[b].rows, row_i)
    /\ TokensAdded(clusters[b].tok_counts, clusters'[b].tok_counts)
    /\ \A k \in DOMAIN clusters : k # b => clusters'[k] = clusters[k]

\* a cluster of this record alone was created at the end of the list
CreatedCluster ==
    /\ Len(clusters') = Len(clusters) + 1
    /\ clusters'[Len(clusters')].rows = <<row_i>>
    /\ TokensAdded(<<>>, clusters'[Len(clusters')].tok_counts)
    /\ \A k \in DOMAIN clusters : clusters'[k] = clusters[k]

(***************************************************************************)
(* C7, as stated: a record with tokens joins the cluster of highest        *)
(* similarity to its token set (the earliest created on equal similarity)  *)
(* if that similarity is greater than or equal to the threshold, its       *)
(* tokens being added to that cluster's counts; otherwise a new cluster of *)
(* this record alone is created at the end of the list.                    *)
(***************************************************************************)
C7_JoinsWhenBestReachesThreshold ==
    [][ StepRecordPlaced =>
          LET sims == Sims
              best == BestOf(sims)
          IN  IF clusters # <<>> /\ FracGeq(sims[best], sim_threshold)
              THEN JoinedCluster(best)
              ELSE CreatedCluster ]_vars

(***************************************************************************)
(* C7, amended: the record joins the cluster of highest similarity (the    *)
(* earliest created on equal similarity) if that similarity is greater     *)
(* than 0 and greater than or equal to the threshold; otherwise, also when *)
(* no cluster shares a token with the record, a new cluster is created at  *)
(* the end of the list.                                                    *)
(***************************************************************************)
C7_JoinsWhenBestPositiveAndReachesThreshold ==
    [][ StepRecordPlaced =>
          LET sims == Sims
              best == BestOf(sims)
          IN  IF /\ clusters # <<>>
                 /\ FracLess(<<0, 1>>, sims[best])
                 /\ FracGeq(sims[best], sim_threshold)
              THEN JoinedCluster(best)
              ELSE CreatedCluster ]_vars

\* the record just processed joined a cluster that is not the first one,
\* and a cluster of one record exists as well
C7_Witness ==
    /\ pc = "cluster_loop"
    /\ row_i > 1
    /\ \E k \in DOMAIN clusters :
         /\ k >= 2
         /\ Len(clusters[k].rows) >= 2
         /\ clusters[k].rows[Len(clusters[k].rows)] = row_i - 1
    /\ \E k \in DOMAIN clusters : Len(clusters[k].rows) = 1

(***************************************************************************)
(* C8: after every record processed, each cluster is non-empty and its     *)
(* counts are exactly the token occurrences of the tokenized titles of its *)
(* own members; processing a record never decreases a count, changes the   *)
(* members and counts of at most one cluster, and never merges, splits or  *)
(* removes a cluster (the final sort only reorders them).                  *)
(***************************************************************************)
\* for the clusters cs of the records rs
ClustersOwnTheirCounts(cs, rs) ==
    \A k \in DOMAIN cs :
      /\ cs[k].rows # <<>>
      /\ CountsMatchMembers(cs[k], rs)

\* the clusters that the step changed or created
ChangedClusters ==
    { k \in DOMAIN clusters' : k \notin DOMAIN clusters \/ clusters'[k] # clusters[k] }

ClustersOnlyGrow ==
    /\ Len(clusters') \in {Len(clusters), Len(clusters) + 1}
    /\ Cardinality(ChangedClusters) <= 1
    /\ \A k \in DOMAIN clusters :
         /\ IsPrefix(clusters[k].rows, clusters'[k].rows)
         /\ \A w \in CounterKeys(clusters[k].tok_counts) :
              CounterGet(clusters'[k].tok_counts, w)
                >= CounterGet(clusters[k].tok_counts, w)

\* the same clusters, each as often, in some order
ClustersReordered ==
    /\ Len(clusters') = Len(clusters)
    /\ \A c \in Range(clusters) \cup Range(clusters') :
         Cardinality({ k \in DOMAIN clusters : clusters[k] = c })
           = Cardinality({ k \in DOMAIN clusters' : clusters'[k] = c })

\* the clusters are empty at the start, so the state after every step is
\* every state in which clusters exist
C8_CountsOwnedAndGrowing ==
    [][ /\ ClustersOwnTheirCounts(clusters', corpus')
        /\ IF IsClusterStep THEN ClustersOnlyGrow ELSE ClustersReordered ]_vars

\* two clusters, one of which has two members and a count above 1
C8_Witness ==
    /\ row_i > 1
    /\ Len(clusters) >= 2
    /\ \E k \in DOMAIN clusters :
         /\ Len(clusters[k].rows) >= 2
         /\ \E q \in DOMAIN clusters[k].tok_counts :
              clusters[k].tok_counts[q].n >= 3

(***************************************************************************)
(* C9: label_cluster returns the topic whose marker words have the highest *)
(* summed count, the earlier declared topic on equal scores, and "Other"   *)
(* exactly when every topic's score is 0; a cluster whose counts hold only *)
(* marker words of one topic gets that topic.                              *)
(***************************************************************************)
TopicScore(cluster, t) == CountSum(cluster.tok_counts, TOPIC_LEXICON[t].words)

TopicScores(cluster) ==
    [ t \in DOMAIN TOPIC_LEXICON |-> TopicScore(cluster, t) ]

\* the earliest declared topic of highest score
TopTopic(scores) ==
    CHOOSE t \in DOMAIN scores :
      /\ \A u \in DOMAIN scores : scores[u] <= scores[t]
      /\ \A u \in 1..(t - 1) : scores[u] < scores[t]

ExpectedLabel(scores) ==
    IF \A t \in DOMAIN scores : scores[t] = 0
    THEN "Other"
    ELSE TOPIC_LEXICON[TopTopic(scores)].topic

OnlyMarkersOf(cluster, t) ==
    /\ cluster.tok_counts # <<>>
    /\ CounterKeys(cluster.tok_counts) \subseteq Range(TOPIC_LEXICON[t].words)

C9_LabelIsTopScoringTopic ==
    ClusteringFinished =>
      \A k \in DOMAIN clusters :
        LET label == label_cluster(clusters[k])
            scores == TopicScores(clusters[k])
        IN  /\ label = ExpectedLabel(scores)
            /\ label = "Other" <=> \A t \in DOMAIN scores : scores[t] = 0
            /\ \A t \in DOMAIN TOPIC_LEXICON :
                 OnlyMarkersOf(clusters[k], t) => label = TOPIC_LEXICON[t].topic
            /\ k \in DOMAIN topic => topic[k] = label

\* labelled clusters: one with two topics at the same positive top score,
\* one without any marker word
C9_Witness ==
    /\ topic # <<>>
    /\ \E k \in DOMAIN topic :
         \E t, u \in DOMAIN TOPIC_LEXICON :
           /\ t < u
           /\ TopicScore(clusters[k], t) = TopicScore(clusters[k], u)
           /\ TopicScore(clusters[k], t) > 0
           /\ topic[k] = TOPIC_LEXICON[t].topic
    /\ \E k \in DOMAIN topic : topic[k] = "Other"

(***************************************************************************)
(* C10: for every cluster of cluster_titles, representative_title returns  *)
(* the title of a member whose score (the sum of the cluster's counts over *)
(* the title's own tokens) is maximal among the members and, among those,  *)
(* whose title is shortest; remaining ties go to the member that joined    *)
(* the cluster first.                                                      *)
(***************************************************************************)
MemberScore(cluster, m) ==
    SumSeq([ q \in DOMAIN Tokens(MemberTitles(cluster)[m]) |->
               CounterGet(cluster.tok_counts, Tokens(MemberTitles(cluster)[m])[q]) ])

\* member m comes before member n: higher score, then shorter title, then
\* earlier in the cluster
Precedes(cluster, m, n) ==
    \/ MemberScore(cluster, m) > MemberScore(cluster, n)
    \/ /\ MemberScore(cluster, m) = MemberScore(cluster, n)
       /\ \/ Len(MemberTitles(cluster)[m]) < Len(MemberTitles(cluster)[n])
          \/ /\ Len(MemberTitles(cluster)[m]) = Len(MemberTitles(cluster)[n])
             /\ m < n

FirstMember(cluster) ==
    CHOOSE m \in DOMAIN cluster.rows :
      \A n \in DOMAIN cluster.rows : n # m => Precedes(cluster, m, n)

C10_RepresentativeIsTopScoringShortest ==
    ClusteringFinished =>
      \A k \in DOMAIN clusters :
        representative_title(clusters[k])
          = MemberTitles(clusters[k])[FirstMember(clusters[k])]

\* a cluster whose members have the same score and titles of different
\* length, the representative being a later member
C10_Witness ==
    /\ ClusteringFinished
    /\ \E k \in DOMAIN clusters :
         /\ Len(clusters[k].rows) >= 2
         /\ FirstMember(clusters[k]) > 1
         /\ MemberScore(clusters[k], 1)
              = MemberScore(clusters[k], FirstMember(clusters[k]))
====
